---- MODULE Spec2Model ----
(***************************************************************************)
(* Model of the voxarch ingestion / chunking / indexing / retrieval core.  *)
(*                                                                         *)
(* Strings are sequences of tokens: a positive integer is a word, SP is a  *)
(* single space and NL a newline.  Every string the program builds keeps   *)
(* whitespace between two words, so a word token is a whole word.          *)
(***************************************************************************)
EXTENDS Integers, Sequences, FiniteSets, TLC

VARIABLES
    cfg,            \* the loaded configuration (utils/config.py, Config._config)
    ct,             \* the running chunk_text call
    dd,             \* the deduplicate_chunks call
    au,             \* the running chunk_audio_transcript call
    ing,            \* the running ingest_books_and_audio call
    vs,             \* the VectorStore: index and metadata
    bld,            \* the running VectorStore.build call
    qry,            \* the last VectorStore.query call
    hashCollide,    \* strings whose hash() values coincide in this process
    disk,           \* the index file and its .meta sidecar
    io,             \* the last VectorStore.save or VectorStore.load call
    conf            \* the Config class: its _instance, and the last call

vars == <<cfg, ct, dd, au, ing, vs, bld, qry, hashCollide, disk, io, conf>>

----------------------------------------------------------------------------
(* Bounds of the model.                                                    *)

MaxWords == 6        \* longest text handed to chunk_text
MaxArg == 3          \* largest chunk_size / overlap argument
MaxBelow == 3        \* the loop index i is followed down to -MaxBelow
MaxChunks == 6       \* the chunk list is followed up to this length
MaxDedupLen == 3     \* longest list handed to deduplicate_chunks
MaxSegs == 4         \* most segments of a transcript
MaxSegWords == 3     \* most words of one segment
MaxAudioArg == 4     \* largest chunk_size argument of the audio chunker
ScenarioWords == 650 \* length of the long transcript of the overlap scenario
MaxTextFiles == 2    \* most files of the text directory
MaxAudioFiles == 2   \* most files of the audio directory
MaxLines == 3        \* most lines of a text document
MaxTopK == 3         \* largest top_k argument of a query
MaxConfigCalls == 3  \* most Config(...) constructions in a behaviour

----------------------------------------------------------------------------
(* Python values and idioms.                                               *)

None == 0 - 1
SP == 0
NL == 0 - 2

IsWord(t) == t >= 1
IsSpace(t) == t = SP \/ t = NL

Min2(a, b) == IF a <= b THEN a ELSE b
Max2(a, b) == IF a >= b THEN a ELSE b

\* `x or y` on integers: None and 0 are falsy.
Or(x, y) == IF x = None \/ x = 0 THEN y ELSE x

\* seq[a:b] with Python's treatment of negative and out-of-range bounds.
PyBound(n, a) == IF a < 0 THEN Max2(a + n, 0) ELSE Min2(a, n)
PySlice(s, a, b) ==
    LET lo == PyBound(Len(s), a)
        hi == PyBound(Len(s), b)
    IN  IF lo >= hi THEN << >> ELSE SubSeq(s, lo + 1, hi)

\* The lists over S of length at most n.
RECURSIVE ListsUpTo(_, _)
ListsUpTo(S, n) ==
    IF n = 0 THEN { << >> }
    ELSE LET shorter == ListsUpTo(S, n - 1)
         IN  shorter \cup { Append(l, x) : l \in shorter, x \in S }

Range(s) == { s[k] : k \in 1..Len(s) }
\* seq[:n] and seq[-n:] for n >= 1 (and the empty sequence for n = 0).
Prefix(s, n) == SubSeq(s, 1, Min2(n, Len(s)))
Suffix(s, n) == SubSeq(s, Max2(Len(s) - n, 0) + 1, Len(s))

\* str.split(): the words of a string, in order.
SplitWords(s) == SelectSeq(s, IsWord)

\* sep.join(parts) for a list of strings (evaluated by halves).
RECURSIVE Join(_, _)
Join(sep, parts) ==
    IF parts = << >> THEN << >>
    ELSE IF Len(parts) = 1 THEN parts[1]
    ELSE LET h == Len(parts) \div 2
         IN  Join(sep, SubSeq(parts, 1, h)) \o sep
                \o Join(sep, SubSeq(parts, h + 1, Len(parts)))

\* The concatenation of a list of lists.
Flatten(ss) == Join(<< >>, ss)

\* " ".join(words) for a list of words.
JoinWords(ws) == Join(<<SP>>, [k \in 1..Len(ws) |-> <<ws[k]>>])

\* sum(s) for a list of numbers (evaluated by halves).
RECURSIVE SumSeq(_)
SumSeq(s) ==
    IF s = << >> THEN 0
    ELSE IF Len(s) = 1 THEN s[1]
    ELSE LET h == Len(s) \div 2
         IN  SumSeq(SubSeq(s, 1, h)) + SumSeq(SubSeq(s, h + 1, Len(s)))

\* str.split("\n\n"): cut at each leftmost non-overlapping blank line.
RECURSIVE SplitBlank(_, _)
SplitBlank(s, cur) ==
    IF s = << >> THEN <<cur>>
    ELSE IF Len(s) >= 2 /\ s[1] = NL /\ s[2] = NL
         THEN <<cur>> \o SplitBlank(SubSeq(s, 3, Len(s)), << >>)
         ELSE SplitBlank(Tail(s), Append(cur, s[1]))

\* p.strip() is non-empty
HasWord(s) == \E k \in 1..Len(s) : IsWord(s[k])

----------------------------------------------------------------------------
(* utils/config.py                                                         *)

DefaultChunkSize == 400
DefaultOverlap == 50
DefaultMinChunkWords == 50

\* Config.get(key, default): the default stands in for a missing/None value.
ConfigGet(val, default) == IF val = None THEN default ELSE val

DefaultMinSectionWords == 100
DefaultTopK == 5

\* Configurations: nothing set, and small values with and without overlap.
\* A string setting that is absent reads "none".
Configs ==
    { [chunk_size |-> None, overlap |-> None, min_chunk_words |-> None,
       method |-> "none", min_section_words |-> None, dedup |-> "none",
       embed_method |-> "none", exclude |-> {}, top_k |-> None],
      [chunk_size |-> 2, overlap |-> 0, min_chunk_words |-> 1,
       method |-> "words", min_section_words |-> 1, dedup |-> "yes",
       embed_method |-> "audio", exclude |-> {}, top_k |-> 2],
      [chunk_size |-> 2, overlap |-> 1, min_chunk_words |-> 1,
       method |-> "paragraphs", min_section_words |-> 2, dedup |-> "no",
       embed_method |-> "text", exclude |-> {<<102>>}, top_k |-> None] }

\* Config.get for a string setting.
ConfigGetStr(val, default) == IF val = "none" THEN default ELSE val

IngIdle == [pc |-> "idle"]

\* VectorStore.__init__, lines 32-33: no index (None), no metadata; the
\* embedders' output sizes are those of the configured models.  The store is
\* one whose two embedders are in place.
TextEmbeddingSize == 384
AudioEmbeddingSize == 512
NoIndex == [built |-> FALSE]

\* No index file and no sidecar on disk; no save or load made; the Config
\* class before its first construction.
NoDisk == [index |-> NoIndex, sidecar |-> [present |-> FALSE, metadata |-> << >>]]
IoIdle == [pc |-> "idle"]
ConfNew ==
    [instance |-> [made |-> FALSE, loaded |-> FALSE], pc |-> "idle",
     calls |-> << >>, got |-> [pc |-> "idle"]]
VsNew == [index |-> NoIndex, metadata |-> << >>,
          text_dim |-> TextEmbeddingSize, audio_dim |-> AudioEmbeddingSize]

----------------------------------------------------------------------------
(* rag/ingest.py: chunk_text                                               *)

\* The units the loop slides over: words, or the non-blank paragraphs.
ChunkUnits(text, method) ==
    IF method = "paragraphs"
    THEN SelectSeq(SplitBlank(text, << >>), HasWord)
    ELSE SplitWords(text)

\* The chunk built from one window of units.
WindowChunk(window, method) ==
    IF method = "paragraphs" THEN Join(<<NL, NL>>, window) ELSE JoinWords(window)

\* ChunkLoopBody with the stride taken as chunk_size, the overlap forgotten.
ChunkLoopBodyNoOverlap(c) ==
    LET window == PySlice(c.units, c.i, c.i + c.chunk_size)
        chunk == WindowChunk(window, c.method)
        keep == Len(SplitWords(chunk)) >= c.min_chunk_words
    IN  [c EXCEPT !.chunks = IF keep THEN Append(@, chunk) ELSE @,
                  !.i = @ + c.chunk_size]

\* One iteration of the while loop: the window at i, kept when it has at
\* least min_chunk_words words, and the index moved on by the stride.
ChunkLoopBody(c) ==
    LET window == PySlice(c.units, c.i, c.i + c.chunk_size)
        chunk == WindowChunk(window, c.method)
        keep == Len(SplitWords(chunk)) >= c.min_chunk_words
    IN  [c EXCEPT !.chunks = IF keep THEN Append(@, chunk) ELSE @,
                  !.i = @ + (c.chunk_size - c.overlap)]

\* Entry of chunk_text: the `or` defaults, then the split.
ChunkEnter(text, chunk_size, overlap, method, min_chunk_words) ==
    LET m == IF method # "none" THEN method
             ELSE IF cfg.method # "none" THEN cfg.method ELSE "words"
    IN  [pc |-> "loop",
         text |-> text,
         arg_chunk_size |-> chunk_size,
         arg_overlap |-> overlap,
         arg_min |-> min_chunk_words,
         chunk_size |-> Or(chunk_size, ConfigGet(cfg.chunk_size, DefaultChunkSize)),
         overlap |-> Or(overlap, ConfigGet(cfg.overlap, DefaultOverlap)),
         min_chunk_words |-> Or(min_chunk_words,
                                ConfigGet(cfg.min_chunk_words, DefaultMinChunkWords)),
         method |-> m,
         units |-> ChunkUnits(text, m),
         i |-> 0,
         chunks |-> << >>]

CtIdle == [pc |-> "idle"]

\* Texts: the words 1..n in order, each gap a space or a blank line.
Gap(g) == IF g = 0 THEN <<SP>> ELSE <<NL, NL>>
RECURSIVE TextOf(_, _, _)
TextOf(n, k, gaps) ==
    IF k > n THEN << >>
    ELSE IF k = n THEN <<k>>
    ELSE <<k>> \o Gap(gaps[k]) \o TextOf(n, k + 1, gaps)
Texts ==
    { TextOf(n, 1, g) : g \in [1..(MaxWords - 1) -> 0..1], n \in 0..MaxWords }

ChunkTextCall ==
    /\ ct.pc = "idle"
    /\ \E text \in Texts, cs \in 0..MaxArg, ov \in 0..MaxArg,
          mn \in 0..MaxArg, m \in {"words", "paragraphs", "none"} :
          ct' = ChunkEnter(text, cs, ov, m, mn)
    /\ UNCHANGED <<cfg, dd, au, hashCollide, ing, vs, bld, qry, disk, io, conf>>

ChunkTextIter ==
    /\ ct.pc = "loop"
    /\ ct.i < Len(ct.units)
    /\ ct.i >= 0 - MaxBelow
    /\ Len(ct.chunks) < MaxChunks
    /\ ct' = ChunkLoopBody(ct)
    /\ UNCHANGED <<cfg, dd, au, hashCollide, ing, vs, bld, qry, disk, io, conf>>

ChunkTextReturn ==
    /\ ct.pc = "loop"
    /\ ~(ct.i < Len(ct.units))
    /\ ct' = [ct EXCEPT !.pc = "done"]
    /\ UNCHANGED <<cfg, dd, au, hashCollide, ing, vs, bld, qry, disk, io, conf>>

----------------------------------------------------------------------------
(* rag/ingest.py: clean_chunk, deduplicate_chunks                          *)

\* re.sub(r'\s+', ' ', chunk).strip(): the words, single-spaced.
clean_chunk(chunk) == JoinWords(SplitWords(chunk))

\* hash(c): equal strings have equal hashes; the strings of hashCollide are
\* different strings that share one hash value in this process.
Hash(c) == IF c \in hashCollide THEN <<None>> ELSE c

RECURSIVE DedupLoop(_, _, _)
DedupLoop(chunks, seen, unique) ==
    IF chunks = << >> THEN unique
    ELSE LET key == Hash(Head(chunks))
         IN  IF key \notin seen
             THEN DedupLoop(Tail(chunks), seen \cup {key}, Append(unique, Head(chunks)))
             ELSE DedupLoop(Tail(chunks), seen, unique)

deduplicate_chunks(chunks) == DedupLoop(chunks, {}, << >>)

DedupChunks == { <<1>>, <<2>>, <<1, SP, 2>> }
DedupCall ==
    /\ dd.pc = "idle"
    /\ \E l \in ListsUpTo(DedupChunks, MaxDedupLen) :
          dd' = [pc |-> "once", input |-> l, once |-> deduplicate_chunks(l)]
    /\ UNCHANGED <<cfg, ct, au, hashCollide, ing, vs, bld, qry, disk, io, conf>>

DedupAgain ==
    /\ dd.pc = "once"
    /\ dd' = [pc |-> "twice", input |-> dd.input, once |-> dd.once,
              twice |-> deduplicate_chunks(dd.once)]
    /\ UNCHANGED <<cfg, ct, au, hashCollide, ing, vs, bld, qry, disk, io, conf>>

InitDedup ==
    /\ cfg \in Configs
    /\ ct = CtIdle
    /\ dd = [pc |-> "idle"]
    /\ au = [pc |-> "idle"]
    /\ ing = IngIdle
    /\ vs = VsNew
    /\ bld = [pc |-> "idle"]
    /\ qry = [pc |-> "idle"]
    /\ disk = NoDisk
    /\ io = IoIdle
    /\ conf = ConfNew
    /\ hashCollide \in { h \in SUBSET DedupChunks : Cardinality(h) \in {0, 2} }

NextDedup == DedupCall \/ DedupAgain

SpecDedup == InitDedup /\ [][NextDedup]_vars

----------------------------------------------------------------------------
(* rag/audio.py: chunk_audio_transcript                                    *)

\* Times are exact fractions n/d; d = 0 stands for None.
NoTime == [n |-> 0, d |-> 0]
Time(t) == [n |-> t, d |-> 1]
SegDuration == 2

\* The call's state before the first segment.
AudioEnter(segments, chunk_size, overlap) ==
    [pc |-> "loop",
     segments |-> segments,
     rest |-> segments,
     arg_chunk_size |-> chunk_size,
     arg_overlap |-> overlap,
     chunk_size |-> Or(chunk_size, ConfigGet(cfg.chunk_size, DefaultChunkSize)),
     overlap |-> Or(overlap, ConfigGet(cfg.overlap, DefaultOverlap)),
     chunks |-> << >>,
     buffer |-> << >>,
     buffer_start |-> NoTime,
     last_end |-> NoTime,
     words |-> 0]

\* AudioSegment with the threshold test written `>` instead of `>=`.
AudioSegmentStrict(a) ==
    LET seg == Head(a.rest)
        seg_words == SplitWords(seg.text)
        start1 == IF a.buffer_start = NoTime THEN Time(seg.start) ELSE a.buffer_start
        buffer1 == a.buffer \o seg_words
        words1 == a.words + Len(seg_words)
        b == [a EXCEPT !.rest = Tail(@), !.last_end = Time(seg.end)]
    IN  IF words1 > a.chunk_size
        THEN LET emitted == Append(a.chunks,
                     [text |-> JoinWords(buffer1), start |-> start1, end |-> Time(seg.end)])
             IN  IF a.overlap > 0 /\ Len(buffer1) > a.overlap
                 THEN IF Len(seg_words) = 0
                      THEN [b EXCEPT !.pc = "raised"]
                      ELSE [b EXCEPT !.chunks = emitted,
                                     !.buffer = Suffix(buffer1, a.overlap),
                                     !.words = a.overlap,
                                     !.buffer_start =
                                         [n |-> seg.end * Len(seg_words)
                                                  - (seg.end - seg.start) * a.overlap,
                                          d |-> Len(seg_words)]]
                 ELSE [b EXCEPT !.chunks = emitted, !.buffer = << >>, !.words = 0,
                                !.buffer_start = NoTime]
        ELSE [b EXCEPT !.buffer = buffer1, !.words = words1, !.buffer_start = start1]

\* One iteration of `for seg in segments`.
AudioSegment(a) ==
    LET seg == Head(a.rest)
        seg_words == SplitWords(seg.text)
        start1 == IF a.buffer_start = NoTime THEN Time(seg.start) ELSE a.buffer_start
        buffer1 == a.buffer \o seg_words
        words1 == a.words + Len(seg_words)
        b == [a EXCEPT !.rest = Tail(@), !.last_end = Time(seg.end)]
    IN  IF words1 >= a.chunk_size
        THEN LET emitted == Append(a.chunks,
                     [text |-> JoinWords(buffer1), start |-> start1, end |-> Time(seg.end)])
             IN  IF a.overlap > 0 /\ Len(buffer1) > a.overlap
                 THEN IF Len(seg_words) = 0
                      THEN [b EXCEPT !.pc = "raised"]     \* ZeroDivisionError
                      ELSE [b EXCEPT !.chunks = emitted,
                                     !.buffer = Suffix(buffer1, a.overlap),
                                     !.words = a.overlap,
                                     !.buffer_start =
                                         [n |-> seg.end * Len(seg_words)
                                                  - (seg.end - seg.start) * a.overlap,
                                          d |-> Len(seg_words)]]
                 ELSE [b EXCEPT !.chunks = emitted, !.buffer = << >>, !.words = 0,
                                !.buffer_start = NoTime]
        ELSE [b EXCEPT !.buffer = buffer1, !.words = words1, !.buffer_start = start1]

\* After the loop: a non-empty buffer is flushed as the last chunk.
AudioFlush(a) ==
    [a EXCEPT !.pc = "done",
              !.chunks = IF a.buffer # << >>
                         THEN Append(@, [text |-> JoinWords(a.buffer),
                                         start |-> a.buffer_start, end |-> a.last_end])
                         ELSE @]

\* Transcripts: the words 1..W in order, cut into segments of the given
\* word counts; segment k spans the time [SegDuration*(k-1), SegDuration*k].
SegmentsOf(counts) ==
    [k \in 1..Len(counts) |->
        LET before == SumSeq(SubSeq(counts, 1, k - 1))
        IN  [text |-> JoinWords([j \in 1..counts[k] |-> before + j]),
             start |-> SegDuration * (k - 1),
             end |-> SegDuration * k]]
Segmentations == ListsUpTo(0..MaxSegWords, MaxSegs)

\* Segmentations of the long transcript: word by word, in one piece, and cut
\* at, just before and well after the chunk_size-th word.
LongSegmentations ==
    { [k \in 1..ScenarioWords |-> 1],
      <<ScenarioWords>>,
      <<DefaultChunkSize, ScenarioWords - DefaultChunkSize>>,
      <<DefaultChunkSize - 1, ScenarioWords - DefaultChunkSize + 1>>,
      <<DefaultChunkSize - DefaultOverlap, 2 * DefaultOverlap,
        ScenarioWords - DefaultChunkSize - DefaultOverlap>> }

AudioCall ==
    /\ au.pc = "idle"
    /\ \/ \E counts \in Segmentations, cs \in 0..MaxAudioArg, ov \in 0..2 :
             au' = AudioEnter(SegmentsOf(counts), cs, ov)
       \/ \E counts \in LongSegmentations :
             au' = AudioEnter(SegmentsOf(counts), DefaultChunkSize, DefaultOverlap)
    /\ UNCHANGED <<cfg, ct, dd, hashCollide, ing, vs, bld, qry, disk, io, conf>>

AudioLoop ==
    /\ au.pc = "loop"
    /\ au.rest # << >>
    /\ au' = AudioSegment(au)
    /\ UNCHANGED <<cfg, ct, dd, hashCollide, ing, vs, bld, qry, disk, io, conf>>

AudioReturn ==
    /\ au.pc = "loop"
    /\ au.rest = << >>
    /\ au' = AudioFlush(au)
    /\ UNCHANGED <<cfg, ct, dd, hashCollide, ing, vs, bld, qry, disk, io, conf>>

InitAudio ==
    /\ cfg \in Configs
    /\ ct = CtIdle
    /\ dd = [pc |-> "idle"]
    /\ au = [pc |-> "idle"]
    /\ ing = IngIdle
    /\ vs = VsNew
    /\ bld = [pc |-> "idle"]
    /\ qry = [pc |-> "idle"]
    /\ disk = NoDisk
    /\ io = IoIdle
    /\ conf = ConfNew
    /\ hashCollide = {}

NextAudio == AudioCall \/ AudioLoop \/ AudioReturn

SpecAudio == InitAudio /\ [][NextAudio]_vars

----------------------------------------------------------------------------
(* rag/ingest.py: extract_sections_txt, ingest_books_and_audio             *)

\* chunk_text as a function: the loop run to its end.  The loop ends only
\* when the stride chunk_size - overlap is positive (see ChunkTextIter).
RECURSIVE ChunkRun(_)
ChunkRun(c) == IF c.i < Len(c.units) THEN ChunkRun(ChunkLoopBody(c)) ELSE c.chunks
chunk_text(text, chunk_size, overlap, method, min_chunk_words) ==
    ChunkRun(ChunkEnter(text, chunk_size, overlap, method, min_chunk_words))

\* chunk_audio_transcript as a function: the call run to its end.
RECURSIVE AudioRun(_)
AudioRun(a) ==
    IF a.pc # "loop" THEN a
    ELSE IF a.rest = << >> THEN AudioFlush(a)
    ELSE AudioRun(AudioSegment(a))
chunk_audio_transcript(segments, chunk_size, overlap) ==
    AudioRun(AudioEnter(segments, chunk_size, overlap))

\* Lines of a document: two headings the section regex matches, a line of
\* two words and an empty line.  A title is the string of its line.
Heading1 == <<101>>
Heading2 == <<102>>
BodyLine == <<1, SP, 2>>
EmptyLine == << >>
Introduction == <<100>>
IsHeading(line) == line \in {Heading1, Heading2}
NoneStr == <<None>>
BookTitle(file) == <<200 + file.name>>
AudioPath(name) == <<300 + name>>

\* extract_sections_txt over the lines of the text, from line k on.
RECURSIVE SectionsLoop(_, _, _, _, _, _)
SectionsLoop(lines, k, current, buffer, sections, exclude) ==
    LET flushed == IF buffer # << >> /\ current \notin exclude
                   THEN Append(sections, [title |-> current, text |-> Join(<<NL>>, buffer)])
                   ELSE sections
    IN  IF k > Len(lines) THEN flushed
        ELSE IF IsHeading(lines[k])
             THEN SectionsLoop(lines, k + 1, lines[k], << >>, flushed, exclude)
             ELSE SectionsLoop(lines, k + 1, current, Append(buffer, lines[k]),
                               sections, exclude)
extract_sections_txt(lines, exclude) ==
    SectionsLoop(lines, 1, Introduction, << >>, << >>, exclude)

IngestSettings ==
    [chunk_size |-> ConfigGet(cfg.chunk_size, DefaultChunkSize),
     overlap |-> ConfigGet(cfg.overlap, DefaultOverlap),
     method |-> ConfigGetStr(cfg.method, "words"),
     min_chunk_words |-> ConfigGet(cfg.min_chunk_words, DefaultMinChunkWords),
     min_section_words |-> ConfigGet(cfg.min_section_words, DefaultMinSectionWords),
     dedup |-> ConfigGetStr(cfg.dedup, "yes") = "yes",
     embed_method |-> ConfigGetStr(cfg.embed_method, "both")]

\* The records of one section: chunked, deduplicated if asked, cleaned.
SectionRecords(file, idx, section) ==
    LET st == IngestSettings
        raw == chunk_text(section.text, st.chunk_size, st.overlap, st.method,
                          st.min_chunk_words)
        chunks == IF st.dedup THEN deduplicate_chunks(raw) ELSE raw
    IN  IF section.text = << >> \/ Len(SplitWords(section.text)) < st.min_section_words
        THEN << >>
        ELSE [j \in 1..Len(chunks) |->
                [chunk |-> clean_chunk(chunks[j]),
                 meta |-> [source_type |-> "book",
                           book_title |-> BookTitle(file),
                           filename |-> file,
                           section |-> section.title,
                           section_index |-> idx - 1,
                           chunk_index |-> j - 1,
                           text |-> clean_chunk(chunks[j])]]]

\* Lines 197-213: the sections of one book file whose extraction gave
\* `content`, the fallback section included.
BookSections(file, content) ==
    LET found == IF file.ext = "epub" THEN content.sections
                 ELSE extract_sections_txt(content.lines, cfg.exclude)
        whole == IF file.ext = "epub" THEN << >> ELSE Join(<<NL>>, content.lines)
    IN  IF found = << >>
        THEN << [title |-> BookTitle(file), text |-> whole] >>
        ELSE found

\* The records of one book file whose extraction gave `content`.
BookRecords(file, content) ==
    LET sections == BookSections(file, content)
    IN  IF content.kind = "raise" THEN << >>
        ELSE Flatten([k \in 1..Len(sections) |-> SectionRecords(file, k, sections[k])])

\* The records of one audio file with the whole-clip record put first.
AudioRecordsClapFirst(name, content) ==
    LET st == IngestSettings
        res == chunk_audio_transcript(content.segments, st.chunk_size, st.overlap)
        transcript ==
            [j \in 1..Len(res.chunks) |->
                [chunk |-> res.chunks[j].text,
                 meta |-> [source_type |-> "audio",
                           filename |-> name,
                           chunk_index |-> j - 1,
                           start_time |-> res.chunks[j].start,
                           end_time |-> res.chunks[j].end,
                           text |-> res.chunks[j].text,
                           audio_path |-> AudioPath(name)]]]
        clap == [chunk |-> AudioPath(name),
                 meta |-> [source_type |-> "audio_clap",
                           filename |-> name,
                           chunk_index |-> 0,
                           start_time |-> Time(0),
                           end_time |-> NoTime,
                           text |-> NoneStr,
                           audio_path |-> AudioPath(name)]]
    IN  IF content.kind = "raise" \/ res.pc = "raised" THEN << >>
        ELSE IF st.embed_method \in {"audio", "both"} THEN <<clap>> \o transcript
        ELSE transcript

\* The records of one audio file whose transcription gave `content`.
AudioRecords(name, content) ==
    LET st == IngestSettings
        res == chunk_audio_transcript(content.segments, st.chunk_size, st.overlap)
        transcript ==
            [j \in 1..Len(res.chunks) |->
                [chunk |-> res.chunks[j].text,
                 meta |-> [source_type |-> "audio",
                           filename |-> name,
                           chunk_index |-> j - 1,
                           start_time |-> res.chunks[j].start,
                           end_time |-> res.chunks[j].end,
                           text |-> res.chunks[j].text,
                           audio_path |-> AudioPath(name)]]]
        clap == [chunk |-> AudioPath(name),
                 meta |-> [source_type |-> "audio_clap",
                           filename |-> name,
                           chunk_index |-> 0,
                           start_time |-> Time(0),
                           end_time |-> NoTime,
                           text |-> NoneStr,
                           audio_path |-> AudioPath(name)]]
    IN  IF content.kind = "raise" \/ res.pc = "raised" THEN << >>
        ELSE IF st.embed_method \in {"audio", "both"} THEN Append(transcript, clap)
        ELSE transcript

\* files.sort() with the order of the listing kept instead.
SortFilesUnsorted(files) == files

\* files.sort(): the paths share the directory, so the file names decide.
RECURSIVE SortFiles(_)
SortFiles(files) ==
    IF files = << >> THEN << >>
    ELSE LET m == CHOOSE k \in 1..Len(files) :
                      \A j \in 1..Len(files) : files[k].name <= files[j].name
         IN  <<files[m]>> \o SortFiles(SubSeq(files, 1, m - 1)
                                          \o SubSeq(files, m + 1, Len(files)))

\* Directory listings: every file name at most once, in any order.
Listings(entries, n) ==
    { l \in ListsUpTo(entries, n) :
        \A i, j \in 1..Len(l) : i # j => l[i].name # l[j].name }
TextEntries == [name : 1..MaxTextFiles, ext : {"txt", "epub", "dat"}]
AudioEntries == [name : 1..MaxAudioFiles, ext : {"wav", "dat"}]

\* What extraction and transcription can give.
Documents(scope) ==
    IF scope = "wide"
    THEN ListsUpTo({Heading1, Heading2, BodyLine, EmptyLine}, MaxLines)
    ELSE { <<BodyLine>> }
EpubSections ==
    { << >>,
      << [title |-> Heading1, text |-> BodyLine] >>,
      << [title |-> Heading1, text |-> BodyLine],
         [title |-> Heading2, text |-> BodyLine] >> }
BookContents(file, scope) ==
    {[kind |-> "raise"]} \cup
    (IF file.ext = "epub"
     THEN { [kind |-> "sections", sections |-> ss] : ss \in EpubSections }
     ELSE { [kind |-> "text", lines |-> d] : d \in Documents(scope) })
Transcriptions(scope) ==
    {[kind |-> "raise"]} \cup
    { [kind |-> "segments", segments |-> SegmentsOf(c)] :
        c \in IF scope = "wide" THEN { << >>, <<1>>, <<2, 1>>, <<3>> }
                                ELSE { << >>, <<2>> } }

NoFile == [kind |-> "none"]

\* Lines 159-190: settings, the sorted list of supported text files.
\* os.listdir raises when the text directory is missing.
IngestEnter(scope, text_dir, audio_dir) ==
    IF ~text_dir.exists
    THEN [pc |-> "raised", scope |-> scope, all_chunks |-> << >>, all_metadata |-> << >>,
          failed |-> {}, last |-> NoFile]
    ELSE [pc |-> "books",
          scope |-> scope,
          failed |-> {},
          last |-> NoFile,
          files |-> SortFiles(SelectSeq(text_dir.listing,
                                        LAMBDA f : f.ext \in {"txt", "epub"})),
          audio_dir |-> audio_dir,
          audio_files |-> << >>,
          all_chunks |-> << >>,
          all_metadata |-> << >>]

Directories(entries, n) ==
    {[exists |-> FALSE, listing |-> << >>]} \cup
    { [exists |-> TRUE, listing |-> l] : l \in Listings(entries, n) }

\* The appends of one loop iteration over `file`.  `failed` and `last` are
\* history: the files whose try block raised, and the iteration just made.
IngestWith(file, content, records) ==
    [ing EXCEPT !.all_chunks = @ \o [k \in 1..Len(records) |-> records[k].chunk],
                !.all_metadata = @ \o [k \in 1..Len(records) |-> records[k].meta],
                !.failed = IF content.kind = "raise" THEN @ \cup {file} ELSE @,
                !.last = [kind |-> "file", file |-> file, content |-> content,
                          chunks_before |-> ing.all_chunks,
                          metadata_before |-> ing.all_metadata]]

\* One iteration of the book loop without its try/except: an extraction
\* that raises ends the run.
IngestBookNoTry ==
    /\ ing.pc = "books"
    /\ ing.files # << >>
    /\ IngestSettings.chunk_size - IngestSettings.overlap > 0
    /\ \E content \in BookContents(Head(ing.files), ing.scope) :
          ing' = [IngestWith(Head(ing.files), content,
                             BookRecords(Head(ing.files), content))
                     EXCEPT !.files = Tail(@),
                            !.pc = IF content.kind = "raise" THEN "raised" ELSE @]
    /\ UNCHANGED <<cfg, ct, dd, au, vs, bld, qry, hashCollide, disk, io, conf>>

\* One iteration of the book loop, its try/except included.
IngestBook ==
    /\ ing.pc = "books"
    /\ ing.files # << >>
    /\ IngestSettings.chunk_size - IngestSettings.overlap > 0
    /\ \E content \in BookContents(Head(ing.files), ing.scope) :
          ing' = [IngestWith(Head(ing.files), content,
                             BookRecords(Head(ing.files), content))
                     EXCEPT !.files = Tail(@)]
    /\ UNCHANGED <<cfg, ct, dd, au, vs, bld, qry, hashCollide, disk, io, conf>>

\* Lines 239-240: the audio files, when the audio directory exists.
IngestListAudio ==
    /\ ing.pc = "books"
    /\ ing.files = << >>
    /\ ing' = [ing EXCEPT !.pc = "audio",
                          !.last = NoFile,
                          !.audio_files =
                              IF ing.audio_dir.exists
                              THEN SelectSeq(ing.audio_dir.listing,
                                             LAMBDA f : f.ext = "wav")
                              ELSE << >>]
    /\ UNCHANGED <<cfg, ct, dd, au, vs, bld, qry, hashCollide, disk, io, conf>>

\* One iteration of the audio loop, its try/except included.
IngestAudio ==
    /\ ing.pc = "audio"
    /\ ing.audio_files # << >>
    /\ \E content \in Transcriptions(ing.scope) :
          ing' = [IngestWith(Head(ing.audio_files), content,
                             AudioRecords(Head(ing.audio_files).name, content))
                     EXCEPT !.audio_files = Tail(@)]
    /\ UNCHANGED <<cfg, ct, dd, au, vs, bld, qry, hashCollide, disk, io, conf>>

IngestReturn ==
    /\ ing.pc = "audio"
    /\ ing.audio_files = << >>
    /\ ing' = [ing EXCEPT !.pc = "done"]
    /\ UNCHANGED <<cfg, ct, dd, au, vs, bld, qry, hashCollide, disk, io, conf>>

\* ingest_books_and_audio called on its own.
IngestCall ==
    /\ ing.pc = "idle"
    /\ \E text_dir \in Directories(TextEntries, MaxTextFiles),
          audio_dir \in Directories(AudioEntries, MaxAudioFiles) :
          ing' = IngestEnter("wide", text_dir, audio_dir)
    /\ UNCHANGED <<cfg, ct, dd, au, vs, bld, qry, hashCollide, disk, io, conf>>

InitIngest ==
    /\ cfg \in Configs
    /\ ct = CtIdle
    /\ dd = [pc |-> "idle"]
    /\ au = [pc |-> "idle"]
    /\ ing = IngIdle
    /\ vs = VsNew
    /\ bld = [pc |-> "idle"]
    /\ qry = [pc |-> "idle"]
    /\ disk = NoDisk
    /\ io = IoIdle
    /\ conf = ConfNew
    /\ hashCollide = {}

NextIngest ==
    IngestCall \/ IngestBook \/ IngestListAudio \/ IngestAudio \/ IngestReturn

SpecIngest == InitIngest /\ [][NextIngest]_vars

----------------------------------------------------------------------------
(* rag/vectorstore.py: VectorStore.build, VectorStore.query                *)
(* rag/embedder.py, rag/audioembedder.py: embed                            *)

\* A vector stands for its embedding by one coordinate; `of` records the
\* position of the embedded chunk in the ingestion output.  Text embeddings
\* are unit vectors, so coordinate 0 is the all-zero vector only.
Coordinates == {1, 2}
Vector(dim, val, pos) == [dim |-> dim, val |-> val, of |-> pos]

\* TextEmbedder.embed(chunk)[0]: a vector of the text model, or it raises.
TextEmbeddings(pos) ==
    {[raised |-> TRUE]} \cup
    { [raised |-> FALSE, failed |-> FALSE, vec |-> Vector(vs.text_dim, v, pos)] :
        v \in Coordinates }

\* AudioEmbedder.embed(path)[0]: the mean-pooled embedding; a failure is
\* caught inside embed, which then returns one all-zero vector.
AudioEmbeddings(pos) ==
    {[raised |-> FALSE, failed |-> TRUE, vec |-> Vector(vs.audio_dim, 0, pos)]} \cup
    { [raised |-> FALSE, failed |-> FALSE, vec |-> Vector(vs.audio_dim, v, pos)] :
        v \in Coordinates }

\* The directories a build ingests.
BuildTextDirs ==
    { [exists |-> FALSE, listing |-> << >>],
      [exists |-> TRUE, listing |-> << >>],
      [exists |-> TRUE, listing |-> << [name |-> 1, ext |-> "txt"] >>],
      [exists |-> TRUE, listing |-> << [name |-> 2, ext |-> "txt"],
                                       [name |-> 1, ext |-> "txt"] >>] }
BuildAudioDirs ==
    { [exists |-> FALSE, listing |-> << >>],
      [exists |-> TRUE, listing |-> << [name |-> 1, ext |-> "wav"] >>] }

\* build() up to its call of ingest_books_and_audio.  The outcome of a
\* call made before the build is not kept.
BuildCall ==
    /\ bld.pc = "idle"
    /\ ing.pc = "idle"
    /\ bld' = [pc |-> "ingesting", before |-> vs]
    /\ \E text_dir \in BuildTextDirs, audio_dir \in BuildAudioDirs :
          ing' = IngestEnter("narrow", text_dir, audio_dir)
    /\ qry' = [pc |-> "idle"]
    /\ io' = IoIdle
    /\ UNCHANGED <<cfg, ct, dd, au, vs, hashCollide, disk, conf>>

\* Line 40 returns the chunks and metadata; line 41.
BuildIngested ==
    /\ bld.pc = "ingesting"
    /\ ing.pc = "done"
    /\ bld' = [pc |-> "embedding",
               before |-> bld.before,
               chunks |-> ing.all_chunks,
               metadata |-> ing.all_metadata,
               next |-> 1,
               embeddings |-> << >>,
               failed |-> {}]
    /\ UNCHANGED <<cfg, ct, dd, au, ing, vs, qry, hashCollide, disk, io, conf>>

\* Line 40 raises: the outer except logs and re-raises.
BuildIngestRaised ==
    /\ bld.pc = "ingesting"
    /\ ing.pc = "raised"
    /\ bld' = [pc |-> "raised", before |-> bld.before, failed |-> {},
               chunks |-> << >>, metadata |-> << >>]
    /\ UNCHANGED <<cfg, ct, dd, au, ing, vs, qry, hashCollide, disk, io, conf>>

\* Lines 42-52: one iteration of the embedding loop.
BuildEmbedChunk ==
    /\ bld.pc = "embedding"
    /\ bld.next <= Len(bld.chunks)
    /\ \E e \in IF bld.metadata[bld.next].source_type = "audio_clap"
                 THEN AudioEmbeddings(bld.next)
                 ELSE TextEmbeddings(bld.next) :
          bld' = IF e.raised
                 THEN [bld EXCEPT !.next = @ + 1, !.failed = @ \cup {bld.next}]
                 ELSE [bld EXCEPT !.next = @ + 1,
                                  !.embeddings = Append(@, e.vec),
                                  !.failed = IF e.failed THEN @ \cup {bld.next} ELSE @]
    /\ UNCHANGED <<cfg, ct, dd, au, ing, vs, qry, hashCollide, disk, io, conf>>

\* Lines 53-57: no embedding at all is fatal; np.stack raises on vectors
\* of different sizes.
BuildStack ==
    /\ bld.pc = "embedding"
    /\ bld.next > Len(bld.chunks)
    /\ bld' = IF \/ bld.embeddings = << >>
                 \/ \E i, j \in 1..Len(bld.embeddings) :
                        bld.embeddings[i].dim # bld.embeddings[j].dim
              THEN [bld EXCEPT !.pc = "raised"]
              ELSE [bld EXCEPT !.pc = "new_index"]
    /\ UNCHANGED <<cfg, ct, dd, au, ing, vs, qry, hashCollide, disk, io, conf>>

\* Line 58: self.index = faiss.IndexFlatL2(dim)
BuildNewIndex ==
    /\ bld.pc = "new_index"
    /\ vs' = [vs EXCEPT !.index = [built |-> TRUE, dim |-> bld.embeddings[1].dim,
                                   vectors |-> << >>]]
    /\ bld' = [bld EXCEPT !.pc = "add"]
    /\ UNCHANGED <<cfg, ct, dd, au, ing, qry, hashCollide, disk, io, conf>>

\* Line 59: self.index.add(embeddings)
BuildAdd ==
    /\ bld.pc = "add"
    /\ vs' = [vs EXCEPT !.index.vectors = @ \o bld.embeddings]
    /\ bld' = [bld EXCEPT !.pc = "set_metadata"]
    /\ UNCHANGED <<cfg, ct, dd, au, ing, qry, hashCollide, disk, io, conf>>

\* Lines 60-61: self.metadata = metadata, and build returns.
BuildSetMetadata ==
    /\ bld.pc = "set_metadata"
    /\ vs' = [vs EXCEPT !.metadata = bld.metadata]
    /\ bld' = [bld EXCEPT !.pc = "returned"]
    /\ UNCHANGED <<cfg, ct, dd, au, ing, qry, hashCollide, disk, io, conf>>

\* faiss IndexFlatL2.search: squared L2 distances, the k nearest first;
\* when the index holds fewer than k vectors the missing results have
\* label -1 and the largest float as distance.
FloatMax == 2147483647
Distance(v, qval) == (v.val - qval) * (v.val - qval)
FaissSearch(vectors, qval, k) ==
    LET n == Len(vectors)
        Before(i, j) ==
            \/ Distance(vectors[i], qval) < Distance(vectors[j], qval)
            \/ Distance(vectors[i], qval) = Distance(vectors[j], qval) /\ i < j
        Nth(r) == CHOOSE i \in 1..n : Cardinality({ j \in 1..n : Before(j, i) }) = r - 1
    IN  [r \in 1..k |->
            IF r <= n
            THEN [label |-> Nth(r) - 1, distance |-> Distance(vectors[Nth(r)], qval)]
            ELSE [label |-> 0 - 1, distance |-> FloatMax]]

\* list[idx] of Python: a negative index counts from the end.
PyIndexOk(list, idx) == 0 - Len(list) <= idx /\ idx < Len(list)
PyIndex(list, idx) == IF idx < 0 THEN list[Len(list) + idx + 1] ELSE list[idx + 1]

\* meta.copy() with meta["score"] set.
WithScore(meta, score) ==
    [f \in DOMAIN meta \cup {"score"} |-> IF f = "score" THEN score ELSE meta[f]]

\* query(query_text, top_k) with the query embedded to coordinate qval.
QueryResult(top_k_arg, e) ==
    LET top_k == Or(top_k_arg, ConfigGet(cfg.top_k, DefaultTopK))
        found == FaissSearch(vs.index.vectors, e.vec.val, top_k)
    IN  IF \/ e.raised
           \/ ~vs.index.built
           \/ e.vec.dim # vs.index.dim
           \/ \E r \in 1..top_k : ~PyIndexOk(vs.metadata, found[r].label)
        THEN [pc |-> "raised", top_k_arg |-> top_k_arg]
        ELSE [pc |-> "returned",
              top_k_arg |-> top_k_arg,
              top_k |-> top_k,
              qval |-> e.vec.val,
              results |-> [r \in 1..top_k |->
                              WithScore(PyIndex(vs.metadata, found[r].label),
                                        found[r].distance)]]

\* A query; none runs while build() is running.  qry holds the outcome of
\* the one call a behaviour observes: a call leaves the store as it is, so
\* a later call returns what it would return as the first.
Query ==
    /\ qry.pc = "idle"
    /\ bld.pc \in {"idle", "returned", "raised"}
    /\ \E k \in {None} \cup 1..MaxTopK, e \in TextEmbeddings(0) :
          qry' = QueryResult(k, e)
    /\ UNCHANGED <<cfg, ct, dd, au, ing, vs, bld, hashCollide, disk, io, conf>>

----------------------------------------------------------------------------
(* rag/vectorstore.py: VectorStore.save, VectorStore.load                  *)

\* The pair an earlier run left on disk: one vector and its record.
OldRecord ==
    [source_type |-> "book", book_title |-> BookTitle([name |-> 9]),
     filename |-> [name |-> 9, ext |-> "txt"], section |-> Introduction,
     section_index |-> 0, chunk_index |-> 0, text |-> <<9>>]
OldDisk(dim) ==
    [index |-> [built |-> TRUE, dim |-> dim, vectors |-> <<Vector(dim, 1, 0)>>],
     sidecar |-> [present |-> TRUE, metadata |-> <<OldRecord>>]]

\* What can go wrong with a file operation: the write or read of the index
\* file fails, that of the sidecar fails, or neither.
IoOutcomes == {"index_fails", "sidecar_fails", "ok"}

\* save(), lines 66-77: faiss.write_index, then pickle.dump to the sidecar.
\* write_index raises on an index that is None.
\* io holds the outcome of the calls a behaviour observes: a save, then a
\* load, or a load alone.
Save ==
    /\ bld.pc \in {"idle", "returned", "raised"}
    /\ qry.pc = "idle"
    /\ io.pc = "idle"
    /\ \E outcome \in IoOutcomes :
          IF ~vs.index.built \/ outcome = "index_fails"
          THEN /\ disk' = disk
               /\ io' = [pc |-> "save_raised", before |-> vs]
          ELSE IF outcome = "sidecar_fails"
          THEN /\ disk' = [disk EXCEPT !.index = vs.index]
               /\ io' = [pc |-> "save_raised", before |-> vs]
          ELSE /\ disk' = [index |-> vs.index,
                           sidecar |-> [present |-> TRUE, metadata |-> vs.metadata]]
               /\ io' = [pc |-> "saved", before |-> vs]
    /\ UNCHANGED <<cfg, ct, dd, au, ing, vs, bld, qry, hashCollide, conf>>

\* load(), lines 79-90: self.index = faiss.read_index(...), then
\* self.metadata = pickle.load(...) from the sidecar.  A read raises when
\* the file is missing or cannot be read.
Load ==
    /\ bld.pc \in {"idle", "returned", "raised"}
    /\ qry.pc = "idle"
    /\ io.pc \in {"idle", "saved", "save_raised"}
    /\ \E outcome \in IoOutcomes :
          IF ~disk.index.built \/ outcome = "index_fails"
          THEN /\ vs' = vs
               /\ io' = [pc |-> "load_raised", before |-> vs]
          ELSE IF ~disk.sidecar.present \/ outcome = "sidecar_fails"
          THEN /\ vs' = [vs EXCEPT !.index = disk.index]
               /\ io' = [pc |-> "load_raised", before |-> vs]
          ELSE /\ vs' = [vs EXCEPT !.index = disk.index,
                                   !.metadata = disk.sidecar.metadata]
               /\ io' = [pc |-> "loaded", before |-> vs]
    /\ UNCHANGED <<cfg, ct, dd, au, ing, bld, qry, hashCollide, disk, conf>>

\* transcribe_audio(audio_path) of a query file: it raises, or gives a
\* transcript; a transcript stands for what the text embedder makes of it.
QueryTranscripts ==
    {[raised |-> TRUE]} \cup
    { [raised |-> FALSE, embedded |-> e] : e \in TextEmbeddings(0) }

\* query_audio with the whole clip embedded by the audio embedder instead.
QueryAudioResultClip(top_k_arg, t) ==
    IF t.raised THEN [pc |-> "raised", top_k_arg |-> top_k_arg]
    ELSE QueryResult(top_k_arg,
                     [raised |-> FALSE, failed |-> FALSE,
                      vec |-> Vector(vs.audio_dim, 0, 0)])

\* query_audio(audio_path, top_k), lines 111-124.
QueryAudioResult(top_k_arg, t) ==
    IF t.raised THEN [pc |-> "raised", top_k_arg |-> top_k_arg]
    ELSE QueryResult(top_k_arg, t.embedded)

\* `store` is history: the store the call ran against.
QueryAudio ==
    /\ qry.pc = "idle"
    /\ bld.pc \in {"idle", "returned", "raised"}
    /\ \E k \in {None} \cup 1..MaxTopK, t \in QueryTranscripts :
          qry' = [via |-> "query_audio", transcript |-> t, store |-> vs]
                     @@ QueryAudioResult(k, t)
    /\ UNCHANGED <<cfg, ct, dd, au, ing, vs, bld, hashCollide, disk, io, conf>>

----------------------------------------------------------------------------
(* rag/langchain_retriever.py: VoxarchRetriever._get_relevant_documents    *)

RetrieverTopK == 5

\* meta.get("text") or "": a null text gives the empty string.
PageContent(meta) == IF meta.text = NoneStr THEN << >> ELSE meta.text

\* Lines 42-47: one Document per result.
Documents_of(results) ==
    [i \in 1..Len(results) |->
        [page_content |-> PageContent(results[i]), metadata |-> results[i]]]

\* Lines 37-41: the query of the store the retriever makes.
RetrieverQuery(mode, top_k, t) ==
    IF mode = "audio"
    THEN QueryAudioResult(Or(top_k, RetrieverTopK), t)
    ELSE IF t.raised THEN [pc |-> "raised", top_k_arg |-> Or(top_k, RetrieverTopK)]
    ELSE QueryResult(Or(top_k, RetrieverTopK), t.embedded)

\* _get_relevant_documents without its try/except.
RetrieveNoTry ==
    /\ qry.pc = "idle"
    /\ io.pc = "loaded"
    /\ bld.pc \in {"idle", "returned", "raised"}
    /\ \E mode \in {"text", "audio"}, top_k \in {None} \cup 1..MaxTopK,
          t \in QueryTranscripts :
          LET found == RetrieverQuery(mode, top_k, t)
          IN  qry' = [pc |-> IF found.pc = "raised" THEN "retriever_raised"
                             ELSE "retrieved",
                      mode |-> mode,
                      found |-> found,
                      docs |-> IF found.pc = "raised" THEN << >>
                               ELSE Documents_of(found.results)]
    /\ UNCHANGED <<cfg, ct, dd, au, ing, vs, bld, hashCollide, disk, io, conf>>

\* The retriever's store is one its constructor has loaded (lines 21-22).
\* _get_relevant_documents(query): in text mode the query is the text, in
\* audio mode the path of a file to transcribe; a text whose embedding
\* raises and a file whose transcription raises are the raising inputs.
Retrieve ==
    /\ qry.pc = "idle"
    /\ io.pc = "loaded"
    /\ bld.pc \in {"idle", "returned", "raised"}
    /\ \E mode \in {"text", "audio"}, top_k \in {None} \cup 1..MaxTopK,
          t \in QueryTranscripts :
          LET found == RetrieverQuery(mode, top_k, t)
          IN  qry' = [pc |-> "retrieved",
                      mode |-> mode,
                      found |-> found,
                      docs |-> IF found.pc = "raised" THEN << >>
                               ELSE Documents_of(found.results)]
    /\ UNCHANGED <<cfg, ct, dd, au, ing, vs, bld, hashCollide, disk, io, conf>>

Init ==
    /\ cfg \in Configs
    /\ ct = CtIdle
    /\ dd = [pc |-> "idle"]
    /\ au = [pc |-> "idle"]
    /\ ing = IngIdle
    /\ vs \in { [VsNew EXCEPT !.text_dim = d] : d \in {TextEmbeddingSize, AudioEmbeddingSize} }
    /\ bld = [pc |-> "idle"]
    /\ qry = [pc |-> "idle"]
    /\ disk = NoDisk
    /\ io = IoIdle
    /\ conf = ConfNew
    /\ hashCollide = {}

Next ==
    \/ BuildCall \/ IngestBook \/ IngestListAudio \/ IngestAudio \/ IngestReturn
    \/ BuildIngested \/ BuildIngestRaised \/ BuildEmbedChunk \/ BuildStack
    \/ BuildNewIndex \/ BuildAdd \/ BuildSetMetadata
    \/ Query \/ QueryAudio

Spec == Init /\ [][Next]_vars

----------------------------------------------------------------------------
(* A store with files on disk: load, rebuild, queries during the rebuild,  *)
(* save, and the retriever.                                                *)

\* The directories of a rebuild: one or two text files, no audio.
RebuildTextDirs ==
    { [exists |-> TRUE, listing |-> << [name |-> 1, ext |-> "txt"] >>],
      [exists |-> TRUE, listing |-> << [name |-> 1, ext |-> "txt"],
                                       [name |-> 2, ext |-> "txt"] >>] }

\* build() called on a store that may hold a loaded pair.
Rebuild ==
    /\ bld.pc = "idle"
    /\ ing.pc = "idle"
    /\ bld' = [pc |-> "ingesting", before |-> vs]
    /\ \E text_dir \in RebuildTextDirs :
          ing' = IngestEnter("narrow", text_dir, [exists |-> FALSE, listing |-> << >>])
    /\ qry' = [pc |-> "idle"]
    /\ io' = IoIdle
    /\ UNCHANGED <<cfg, ct, dd, au, vs, hashCollide, disk, conf>>

\* query() from another thread while build() is between two of its
\* statements.  `store` and `during` are history: the store the call ran
\* against and where build() was.
QueryDuringBuild ==
    /\ qry.pc = "idle"
    /\ bld.pc \in {"embedding", "new_index", "add", "set_metadata"}
    /\ \E k \in {None} \cup 1..MaxTopK, e \in TextEmbeddings(0) :
          qry' = [store |-> vs, during |-> bld.pc] @@ QueryResult(k, e)
    /\ UNCHANGED <<cfg, ct, dd, au, ing, vs, bld, hashCollide, disk, io, conf>>

InitPersist ==
    /\ cfg \in Configs
    /\ ct = CtIdle
    /\ dd = [pc |-> "idle"]
    /\ au = [pc |-> "idle"]
    /\ ing = IngIdle
    /\ vs \in { [VsNew EXCEPT !.text_dim = d] : d \in {TextEmbeddingSize, AudioEmbeddingSize} }
    /\ bld = [pc |-> "idle"]
    /\ qry = [pc |-> "idle"]
    /\ disk \in {NoDisk, OldDisk(vs.text_dim)}
    /\ io = IoIdle
    /\ conf = ConfNew
    /\ hashCollide = {}

NextPersist ==
    \/ Load \/ Save
    \/ Rebuild \/ IngestBook \/ IngestListAudio \/ IngestReturn
    \/ BuildIngested \/ BuildEmbedChunk \/ BuildStack
    \/ BuildNewIndex \/ BuildAdd \/ BuildSetMetadata
    \/ Query \/ QueryDuringBuild \/ Retrieve

SpecPersist == InitPersist /\ [][NextPersist]_vars

----------------------------------------------------------------------------
(* utils/config.py: Config.__new__, Config._load, Config.get               *)

\* What _load finds at the path: no file, a file that is not YAML, or a
\* file that parses to the configuration cfg.
ConfigFiles == {"missing", "yaml_error", "ok"}

\* Config(path), lines 17-26: the first call stores a new instance in
\* cls._instance and then loads it; a load that raises leaves the stored
\* instance without _config.  A later call returns the stored instance.
ConfigNew(file) ==
    IF conf.instance.made
    THEN [conf EXCEPT !.pc = "returned", !.calls = Append(@, file),
                      !.got = [pc |-> "idle"]]
    ELSE IF file = "ok"
    THEN [conf EXCEPT !.instance = [made |-> TRUE, loaded |-> TRUE],
                      !.pc = "returned", !.calls = Append(@, file),
                      !.got = [pc |-> "idle"]]
    ELSE [conf EXCEPT !.instance = [made |-> TRUE, loaded |-> FALSE],
                      !.pc = "raised", !.calls = Append(@, file),
                      !.got = [pc |-> "idle"]]

ConfigCall ==
    /\ Len(conf.calls) < MaxConfigCalls
    /\ \E file \in ConfigFiles : conf' = ConfigNew(file)
    /\ UNCHANGED <<cfg, ct, dd, au, ing, vs, bld, qry, hashCollide, disk, io>>

\* The integer settings and the defaults their call sites pass.
ConfigKeys == {"chunk_size", "overlap", "top_k"}
ConfigDefault(key) ==
    IF key = "chunk_size" THEN DefaultChunkSize
    ELSE IF key = "overlap" THEN DefaultOverlap
    ELSE DefaultTopK

\* get(key, default) on the instance the last call returned, lines 46-61:
\* self._config is read first, and an instance that was never loaded has
\* no such attribute.
ConfigGetCall ==
    /\ conf.pc = "returned"
    /\ conf.got.pc = "idle"
    /\ \E key \in ConfigKeys :
          conf' = [conf EXCEPT !.got =
                      IF ~conf.instance.loaded
                      THEN [pc |-> "raised", key |-> key]
                      ELSE [pc |-> "returned", key |-> key,
                            value |-> ConfigGet(cfg[key], ConfigDefault(key))]]
    /\ UNCHANGED <<cfg, ct, dd, au, ing, vs, bld, qry, hashCollide, disk, io>>

InitConfig ==
    /\ cfg \in Configs
    /\ ct = CtIdle
    /\ dd = [pc |-> "idle"]
    /\ au = [pc |-> "idle"]
    /\ ing = IngIdle
    /\ vs = VsNew
    /\ bld = [pc |-> "idle"]
    /\ qry = [pc |-> "idle"]
    /\ disk = NoDisk
    /\ io = IoIdle
    /\ conf = ConfNew
    /\ hashCollide = {}

NextConfig == ConfigCall \/ ConfigGetCall

SpecConfig == InitConfig /\ [][NextConfig]_vars

InitChunk ==
    /\ cfg \in Configs
    /\ ct = CtIdle
    /\ dd = [pc |-> "idle"]
    /\ au = [pc |-> "idle"]
    /\ ing = IngIdle
    /\ vs = VsNew
    /\ bld = [pc |-> "idle"]
    /\ qry = [pc |-> "idle"]
    /\ disk = NoDisk
    /\ io = IoIdle
    /\ conf = ConfNew
    /\ hashCollide = {}

NextChunk == ChunkTextCall \/ ChunkTextIter \/ ChunkTextReturn

SpecChunk == InitChunk /\ [][NextChunk]_vars

----------------------------------------------------------------------------
(* Properties of chunk_text.                                               *)

CtCalled == ct.pc # "idle"
CtDegenerate ==
    /\ CtCalled
    /\ ct.text # << >>
    /\ ct.arg_chunk_size >= 1
    /\ ct.arg_overlap >= ct.arg_chunk_size

\* C3: a chunk_text call on non-empty text whose overlap is at least its
\* chunk_size is rejected as a configuration error: it never runs the
\* sliding-window loop and never returns chunks, whichever method is used.
CT_DegenerateStrideRejected ==
    CtDegenerate => ct.pc = "rejected"

\* A returned word-method call whose arguments satisfy 0 <= overlap < chunk_size.
CtWordsDone ==
    /\ ct.pc = "done"
    /\ ct.method = "words"
    /\ 0 <= ct.arg_overlap
    /\ ct.arg_overlap < ct.arg_chunk_size

CtInputWords == Range(SplitWords(ct.text))
CtCovered == UNION { Range(SplitWords(ct.chunks[k])) : k \in 1..Len(ct.chunks) }

\* A chunk is a boundary chunk when it is the first one or when the end of
\* the input cut it short of chunk_size words.
CtOverlapLinked ==
    \A k \in 2..Len(ct.chunks) :
        Len(SplitWords(ct.chunks[k])) = ct.arg_chunk_size
        => Prefix(SplitWords(ct.chunks[k]), ct.arg_overlap)
              = Suffix(SplitWords(ct.chunks[k - 1]), ct.arg_overlap)

----------------------------------------------------------------------------
(* Properties of deduplicate_chunks.                                       *)

\* The elements of l at the positions of idx, in order.
RECURSIVE Pick(_, _, _)
Pick(l, idx, k) ==
    IF k > Len(l) THEN << >>
    ELSE IF k \in idx THEN <<l[k]>> \o Pick(l, idx, k + 1)
    ELSE Pick(l, idx, k + 1)

FirstOccurrences(l) ==
    Pick(l, { k \in 1..Len(l) : \A j \in 1..(k - 1) : l[j] # l[k] }, 1)

\* C7: deduplicating twice gives what deduplicating once gives, and the
\* result is the input's subsequence of the first occurrence of each
\* distinct chunk.
DD_IdempotentFirstOccurrences ==
    dd.pc = "twice" =>
        /\ dd.twice = dd.once
        /\ dd.once = FirstOccurrences(dd.input)

----------------------------------------------------------------------------
(* Properties of chunk_audio_transcript.                                   *)


AuSegWords == [k \in 1..Len(au.segments) |-> SplitWords(au.segments[k].text)]
AuTotalWords == SumSeq([k \in 1..Len(au.segments) |-> Len(AuSegWords[k])])
\* The word counts at which a segment ends.
AuSegmentEnds ==
    { SumSeq([j \in 1..k |-> Len(AuSegWords[j])]) : k \in 1..Len(au.segments) }
AuChunkWords(k) == SplitWords(au.chunks[k].text)

AuNoOverlapDone == au.pc = "done" /\ au.overlap = 0 /\ au.chunk_size >= 1

\* C8 as stated: without overlap a transcript of W words gives W div C
\* chunks of C words and then one chunk of the W mod C remaining words when
\* there are any, however the words are divided into segments.
AU_FullChunksThenPartial ==
    AuNoOverlapDone =>
        LET q == AuTotalWords \div au.chunk_size
            r == AuTotalWords % au.chunk_size
        IN  /\ Len(au.chunks) = q + (IF r > 0 THEN 1 ELSE 0)
            /\ \A k \in 1..q : Len(AuChunkWords(k)) = au.chunk_size
            /\ r > 0 => Len(AuChunkWords(q + 1)) = r

\* C8 amended: without overlap the chunks partition the transcript and are
\* closed at segment ends only: each chunk but the last has at least C
\* words, the last is not empty, so there are at most W div C + 1 chunks;
\* there are exactly W div C chunks of C words and then one chunk of
\* W mod C words, if any, when every multiple of C up to W is a segment end.
AU_ChunksCloseAtSegmentEnds ==
    AuNoOverlapDone =>
        LET q == AuTotalWords \div au.chunk_size
            r == AuTotalWords % au.chunk_size
            n == Len(au.chunks)
        IN  /\ Flatten([k \in 1..n |-> AuChunkWords(k)]) = Flatten(AuSegWords)
            /\ \A k \in 1..(n - 1) : Len(AuChunkWords(k)) >= au.chunk_size
            /\ n >= 1 => Len(AuChunkWords(n)) >= 1
            /\ n <= q + 1
            /\ (\A m \in 1..q : m * au.chunk_size \in AuSegmentEnds) =>
                  /\ n = q + (IF r > 0 THEN 1 ELSE 0)
                  /\ \A k \in 1..q : Len(AuChunkWords(k)) = au.chunk_size
                  /\ r > 0 => Len(AuChunkWords(q + 1)) = r

\* Two full chunks and a partial one out of segments of several words.
AU_ChunksWitness ==
    /\ AuNoOverlapDone
    /\ au.chunk_size = 2
    /\ AuTotalWords = 5
    /\ Len(au.segments) = 3
    /\ {2, 4} \subseteq AuSegmentEnds
    /\ Len(au.chunks) = 3

AuOverlapDone == au.pc = "done" /\ au.arg_overlap > 0 /\ au.chunk_size >= 1

\* Chunk k starts with the last n words of chunk k-1 and goes on with words
\* that come after every word of chunk k-1 (words are numbered in order).
AuSeeded(k, n) ==
    LET prev == AuChunkWords(k - 1)
        cur == AuChunkWords(k)
    IN  /\ Len(prev) >= n
        /\ Len(cur) >= n
        /\ Prefix(cur, n) = Suffix(prev, n)
        /\ \A j \in (n + 1)..Len(cur) : cur[j] > prev[Len(prev)]

Interval(a, b) == [k \in 1..(b - a + 1) |-> a + k - 1]

\* The overlap scenario: W words, chunk_size C, overlap N, W < 2C - N; at
\* full size (650, 400, 50) and scaled down (6, 4, 1).
AuScenario(w, c, n) ==
    AuTotalWords = w /\ au.chunk_size = c /\ au.overlap = n
AuScenarioChunks(w, c, n) ==
    /\ Len(au.chunks) = 2
    /\ AuChunkWords(1) = Interval(1, c)
    /\ AuChunkWords(2) = Interval(c - n + 1, w)

\* C9 as stated: with overlap N > 0 every chunk after the first starts with
\* the last N words of its predecessor and goes on with new words only, and
\* the 650-word transcript with chunk_size 400 and overlap 50 gives the two
\* chunks of words 1-400 and 351-650 whatever its segmentation.
AU_OverlapSeedsNextChunk ==
    AuOverlapDone =>
        /\ \A k \in 2..Len(au.chunks) : AuSeeded(k, au.overlap)
        /\ AuScenario(ScenarioWords, DefaultChunkSize, DefaultOverlap)
              => AuScenarioChunks(ScenarioWords, DefaultChunkSize, DefaultOverlap)
        /\ AuScenario(6, 4, 1) => AuScenarioChunks(6, 4, 1)

\* The first segment end at or after word c.
AuFirstEndFrom(c) ==
    CHOOSE b \in AuSegmentEnds :
        b >= c /\ \A b2 \in AuSegmentEnds : b2 >= c => b <= b2

\* The scenario's chunks when chunks close at segment ends: two chunks, the
\* first up to the first segment end b at or after word c, the second from
\* word b - n + 1 to the last word.
AuScenarioChunksAt(w, c, n) ==
    LET b == AuFirstEndFrom(c)
    IN  /\ Len(au.chunks) = 2
        /\ AuChunkWords(1) = Interval(1, b)
        /\ AuChunkWords(2) = Interval(b - n + 1, w)

\* C9 amended: with 0 < N < chunk_size every chunk after the first starts
\* with the last N words of its predecessor and goes on with new words only
\* (with none when the transcript ends where the predecessor was closed);
\* the 650-word transcript with chunk_size 400 and overlap 50 gives exactly
\* two chunks, words 1-b and (b-49)-650 for the first segment end b at or
\* after word 400: words 1-400 and 351-650 when a segment ends at word 400.
AU_OverlapSeedsBelowChunkSize ==
    (AuOverlapDone /\ au.overlap < au.chunk_size) =>
        /\ \A k \in 2..Len(au.chunks) : AuSeeded(k, au.overlap)
        /\ AuScenario(ScenarioWords, DefaultChunkSize, DefaultOverlap)
              => /\ AuScenarioChunksAt(ScenarioWords, DefaultChunkSize, DefaultOverlap)
                 /\ DefaultChunkSize \in AuSegmentEnds
                      => AuScenarioChunks(ScenarioWords, DefaultChunkSize, DefaultOverlap)
        /\ AuScenario(6, 4, 1)
              => /\ AuScenarioChunksAt(6, 4, 1)
                 /\ 4 \in AuSegmentEnds => AuScenarioChunks(6, 4, 1)

\* The long transcript, segmented word by word, chunked with overlap.
AU_OverlapWitness ==
    /\ AuOverlapDone
    /\ AuScenario(ScenarioWords, DefaultChunkSize, DefaultOverlap)
    /\ Len(au.segments) = ScenarioWords
    /\ AuScenarioChunks(ScenarioWords, DefaultChunkSize, DefaultOverlap)

----------------------------------------------------------------------------
(* Properties of ingest_books_and_audio.                                   *)

IngDone == ing.pc = "done"
IngMeta(i) == ing.all_metadata[i]
IngBooks == { i \in 1..Len(ing.all_metadata) : IngMeta(i).source_type = "book" }

\* C6: with deduplication on, no two book chunks of one ingestion run are
\* equal after whitespace normalization, in whatever sections or files they
\* lie: only the first occurrence of a content is emitted.
ING_DedupAcrossRun ==
    (IngDone /\ IngestSettings.dedup) =>
        \A i, j \in IngBooks :
            i < j => clean_chunk(ing.all_chunks[i]) # clean_chunk(ing.all_chunks[j])

\* The payload that metadata record m describes.
MetaPayload(m) == IF m.source_type = "audio_clap" THEN m.audio_path ELSE m.text

\* C10: in the returned lists every book record precedes every audio and
\* audio_clap record; book records are in file name order, within a file in
\* non-decreasing section_index and within a section in strictly increasing
\* chunk_index; the lists have equal length and chunks[i] is the payload
\* that metadata[i] describes.
ING_EmissionOrder ==
    IngDone =>
        /\ Len(ing.all_chunks) = Len(ing.all_metadata)
        /\ \A i \in 1..Len(ing.all_metadata) : ing.all_chunks[i] = MetaPayload(IngMeta(i))
        /\ \A i, j \in 1..Len(ing.all_metadata) :
              (i < j /\ j \in IngBooks) => i \in IngBooks
        /\ \A i, j \in IngBooks :
              i < j =>
                /\ IngMeta(i).filename.name <= IngMeta(j).filename.name
                /\ IngMeta(i).filename = IngMeta(j).filename
                     => IngMeta(i).section_index <= IngMeta(j).section_index
                /\ (/\ IngMeta(i).filename = IngMeta(j).filename
                    /\ IngMeta(i).section_index = IngMeta(j).section_index)
                     => IngMeta(i).chunk_index < IngMeta(j).chunk_index

\* A run over two books listed in reverse name order, one with two sections
\* and one with a section of two chunks, and an audio file with a transcript
\* record and a whole-clip record.
ING_EmissionOrderWitness ==
    /\ IngDone
    /\ \E i, j \in IngBooks : IngMeta(i).filename.name < IngMeta(j).filename.name
    /\ \E i, j \in IngBooks :
          /\ IngMeta(i).filename = IngMeta(j).filename
          /\ IngMeta(i).section_index < IngMeta(j).section_index
    /\ \E i, j \in IngBooks :
          /\ IngMeta(i).filename = IngMeta(j).filename
          /\ IngMeta(i).section_index = IngMeta(j).section_index
          /\ IngMeta(i).chunk_index < IngMeta(j).chunk_index
    /\ \E i \in 1..Len(ing.all_metadata) : IngMeta(i).source_type = "audio"
    /\ \E i \in 1..Len(ing.all_metadata) : IngMeta(i).source_type = "audio_clap"

----------------------------------------------------------------------------
(* VectorStore.build and VectorStore.query                                 *)

BuildOver == bld.pc \in {"returned", "raised"}
IndexSize == IF vs.index.built THEN Len(vs.index.vectors) ELSE 0

\* C1: after a build that returns, the index holds as many vectors as there
\* are metadata records, the vector at each position is the embedding of
\* the chunk the metadata record at that position describes, and a chunk
\* whose embedding failed has no vector in the index.
BLD_IndexAlignedWithMetadata ==
    bld.pc = "returned" =>
        /\ IndexSize = Len(vs.metadata)
        /\ \A i \in 1..IndexSize :
              /\ i <= Len(vs.metadata)
              /\ vs.metadata[i] = bld.metadata[vs.index.vectors[i].of]
        /\ \A i \in 1..IndexSize : vs.index.vectors[i].of \notin bld.failed

\* C2: a query that returns against an index of n records with result count
\* k returns min(k, n) results, each the metadata record of a distinct index
\* position with that position's distance to the query as score, in
\* non-decreasing order of score.
QRY_ReturnsMinOfKAndN ==
    qry.pc = "returned" =>
        LET n == IndexSize
            res == qry.results
        IN  /\ Len(res) = Min2(qry.top_k, n)
            /\ \E pos \in [1..Len(res) -> 1..n] :
                  /\ \A a, b \in 1..Len(res) : a # b => pos[a] # pos[b]
                  /\ \A a \in 1..Len(res) :
                        res[a] = WithScore(vs.metadata[pos[a]],
                                           Distance(vs.index.vectors[pos[a]], qry.qval))
            /\ \A a, b \in 1..Len(res) : a <= b => res[a].score <= res[b].score

\* C4: a build in which the embedding of every ingested chunk failed (or
\* which ingested no chunk) ends by raising, with the store's index and
\* metadata as they were before the call.
BLD_AllFailedRaisesAndKeepsStore ==
    (BuildOver /\ bld.failed = 1..Len(bld.chunks)) =>
        /\ bld.pc = "raised"
        /\ vs = bld.before

----------------------------------------------------------------------------
(* ingest_books_and_audio: failures of single files                        *)

\* The file a metadata record comes from.
MetaFile(meta) ==
    IF meta.source_type = "book" THEN meta.filename
    ELSE [name |-> meta.filename, ext |-> "wav"]

\* The records of a run over `file` alone, extraction or transcription
\* having given `content`.
FileRecords(file, content) ==
    IF content.kind = "raise" THEN << >>
    ELSE IF file.ext = "wav" THEN AudioRecords(file.name, content)
    ELSE BookRecords(file, content)

\* C11: a file whose extraction or transcription raises does not make the
\* run raise and has no record in the output; the iteration over it leaves
\* the output as it was, and the iteration over any other file appends the
\* records a run over that file alone emits.
ING_FileFailureIsolated ==
    ing.pc # "idle" =>
        /\ ing.failed # {} => ing.pc # "raised"
        /\ \A i \in 1..Len(ing.all_metadata) : MetaFile(IngMeta(i)) \notin ing.failed
        /\ ing.last.kind = "file" =>
              LET recs == FileRecords(ing.last.file, ing.last.content)
              IN  /\ ing.all_chunks =
                        ing.last.chunks_before \o [k \in 1..Len(recs) |-> recs[k].chunk]
                  /\ ing.all_metadata =
                        ing.last.metadata_before \o [k \in 1..Len(recs) |-> recs[k].meta]

ING_FileFailureWitness ==
    /\ IngDone
    /\ \E f \in ing.failed :
          /\ f.ext # "wav"
          /\ \E i \in 1..Len(ing.all_metadata) :
                /\ IngMeta(i).source_type = "book"
                /\ IngMeta(i).filename.name > f.name
    /\ \E f \in ing.failed : f.ext = "wav"
    /\ \E i \in 1..Len(ing.all_metadata) : IngMeta(i).source_type = "audio"

----------------------------------------------------------------------------
(* Sectioning of a document without headings                               *)

\* The book loop has just sectioned a text document none of whose lines
\* is a heading.
IngNoHeadingDocument ==
    /\ ing.pc \in {"books", "audio", "done"}
    /\ ing.last.kind = "file"
    /\ ing.last.file.ext = "txt"
    /\ ing.last.content.kind = "text"
    /\ \A k \in 1..Len(ing.last.content.lines) : ~IsHeading(ing.last.content.lines[k])

\* C12: a text document without a heading line is sectioned into exactly
\* one section, titled with the file's base name, whose body is the whole
\* text; the records emitted for it carry that title.
ING_NoHeadingSectionTitledAfterDocument ==
    IngNoHeadingDocument =>
        /\ BookSections(ing.last.file, ing.last.content) =
              << [title |-> BookTitle(ing.last.file),
                  text |-> Join(<<NL>>, ing.last.content.lines)] >>
        /\ \A i \in Len(ing.last.metadata_before) + 1 .. Len(ing.all_metadata) :
              IngMeta(i).section = BookTitle(ing.last.file)

----------------------------------------------------------------------------
(* Whole-clip records of audio files                                       *)

\* The audio files of the run, and the positions of the whole-clip records
\* of the audio file called `name`.
IngAudioFiles ==
    IF ing.audio_dir.exists
    THEN { ing.audio_dir.listing[k] : k \in { j \in 1..Len(ing.audio_dir.listing) :
                                                ing.audio_dir.listing[j].ext = "wav" } }
    ELSE {}
ClapPositions(name) ==
    { i \in 1..Len(ing.all_metadata) :
        IngMeta(i).source_type = "audio_clap" /\ IngMeta(i).filename = name }
ClapEnabled == IngestSettings.embed_method \in {"audio", "both"}

\* The one whole-clip record of the file: text null, the file as path and
\* payload, after every transcript record of the file.
OneClapRecord(name) ==
    /\ Cardinality(ClapPositions(name)) = 1
    /\ \A i \in ClapPositions(name) :
          /\ IngMeta(i).text = NoneStr
          /\ IngMeta(i).audio_path = AudioPath(name)
          /\ ing.all_chunks[i] = AudioPath(name)
          /\ \A j \in 1..Len(ing.all_metadata) :
                (IngMeta(j).source_type = "audio" /\ IngMeta(j).filename = name) => j < i

\* C13 as stated: with whole-clip embedding enabled the returned output has
\* one whole-clip record for every audio file of the directory; with it
\* disabled it has none.
ING_ClapRecordPerAudioFile ==
    IngDone =>
        IF ClapEnabled
        THEN \A f \in IngAudioFiles : OneClapRecord(f.name)
        ELSE \A i \in 1..Len(ing.all_metadata) : IngMeta(i).source_type # "audio_clap"

\* C13 amended: with whole-clip embedding enabled the returned output has
\* one whole-clip record for every audio file whose transcription did not
\* raise and none for a file whose transcription raised; with it disabled
\* it has none.
ING_ClapRecordPerTranscribedFile ==
    IngDone =>
        IF ClapEnabled
        THEN \A f \in IngAudioFiles :
                IF f \in ing.failed THEN ClapPositions(f.name) = {}
                ELSE OneClapRecord(f.name)
        ELSE \A i \in 1..Len(ing.all_metadata) : IngMeta(i).source_type # "audio_clap"

ING_ClapRecordWitness ==
    /\ IngDone
    /\ ClapEnabled
    /\ \E f, g \in IngAudioFiles :
          /\ f \in ing.failed
          /\ g \notin ing.failed
          /\ \E j \in 1..Len(ing.all_metadata) :
                IngMeta(j).source_type = "audio" /\ IngMeta(j).filename = g.name

----------------------------------------------------------------------------
(* VoxarchRetriever and VectorStore.query_audio                            *)

RetrieverCalled == qry.pc \in {"retrieved", "retriever_raised"}

\* C14: _get_relevant_documents never raises; when the query of the store
\* raised it returns no document, otherwise one document per result, with
\* the record's text (the empty string for a null text) as content and the
\* record as metadata.
RET_NeverRaises ==
    RetrieverCalled =>
        /\ qry.pc = "retrieved"
        /\ qry.found.pc = "raised" => qry.docs = << >>
        /\ qry.found.pc = "returned" =>
              /\ Len(qry.docs) = Len(qry.found.results)
              /\ \A i \in 1..Len(qry.docs) :
                    /\ qry.docs[i].metadata = qry.found.results[i]
                    /\ qry.docs[i].page_content =
                          IF qry.found.results[i].text = <<None>> THEN << >>
                          ELSE qry.found.results[i].text

RET_NeverRaisesWitness ==
    /\ qry.pc = "retrieved"
    /\ qry.mode = "audio"
    /\ qry.found.pc = "raised"
    /\ vs.index.built

QueryAudioCalled == "via" \in DOMAIN qry

\* C15: query_audio of a file, against the index as it is, gives what
\* query gives for the transcript of the file with the same top_k: it
\* raises when that raises, and returns the same records with the same
\* scores in the same order when that returns.
QRY_AudioQueryIsTranscriptQuery ==
    (QueryAudioCalled /\ ~qry.transcript.raised /\ vs = qry.store) =>
        LET direct == QueryResult(qry.top_k_arg, qry.transcript.embedded)
        IN  /\ qry.pc = direct.pc
            /\ direct.pc = "returned" => qry.results = direct.results

QRY_AudioQueryWitness ==
    /\ QueryAudioCalled
    /\ ~qry.transcript.raised
    /\ vs = qry.store
    /\ qry.pc = "returned"
    /\ Len(qry.results) >= 2
    /\ qry.results[1].score < qry.results[2].score

----------------------------------------------------------------------------
(* VectorStore.load, VectorStore.save and rebuilds                         *)

\* C16: a load that succeeds has read an index file and a sidecar that
\* hold the same number of records.
PST_LoadRequiresConsistentPair ==
    io.pc = "loaded" =>
        /\ disk.index.built
        /\ disk.sidecar.present
        /\ Len(disk.index.vectors) = Len(disk.sidecar.metadata)
        /\ IndexSize = Len(vs.metadata)

\* The query ran against the pair the store held before build() was called,
\* or against the pair build() installs.
SawOldPair(store) ==
    /\ store.index = bld.before.index
    /\ store.metadata = bld.before.metadata
SawNewPair(store) ==
    /\ store.index.built
    /\ store.index.vectors = bld.embeddings
    /\ store.metadata = bld.metadata

\* C17: a query made while build() runs on the same store is served from
\* the whole old pair or from the whole new pair, and a query changes
\* neither the index nor the metadata of the store.
PST_QuerySeesOldOrNewPair ==
    /\ []("store" \in DOMAIN qry => SawOldPair(qry.store) \/ SawNewPair(qry.store))
    /\ [][(qry' # qry /\ qry'.pc # "idle") => vs' = vs]_vars

\* C19: a load that raises leaves the index and the metadata of the store
\* as they were before the call.
PST_FailedLoadKeepsStore ==
    io.pc = "load_raised" =>
        /\ vs.index = io.before.index
        /\ vs.metadata = io.before.metadata

----------------------------------------------------------------------------
(* chunk_audio_transcript: start times                                     *)

\* t <= u for two times that are not None.
TimeLeq(t, u) == t.n * u.d <= u.n * t.d

\* The segment the loop has just processed, and whether that iteration
\* emitted a chunk and carried overlap words over.
AuBoundarySegment == au.segments[Len(au.segments) - Len(au.rest)]
AuJustCarried ==
    /\ au.pc = "loop"
    /\ Len(au.rest) < Len(au.segments)
    /\ au.chunks # << >>
    /\ au.chunks[Len(au.chunks)].end = Time(AuBoundarySegment.end)
    /\ au.buffer # << >>

\* C18: the computation never fails; every emitted chunk starts no later
\* than it ends; and a start time carried over with the overlap words lies
\* within the span of the segment that completed the chunk.
AU_CarriedStartWithinBoundarySegment ==
    au.pc # "idle" =>
        /\ au.pc # "raised"
        /\ \A j \in 1..Len(au.chunks) : TimeLeq(au.chunks[j].start, au.chunks[j].end)
        /\ AuJustCarried =>
              /\ TimeLeq(Time(AuBoundarySegment.start), au.buffer_start)
              /\ TimeLeq(au.buffer_start, Time(AuBoundarySegment.end))

----------------------------------------------------------------------------
(* Config                                                                  *)

\* C20: every instance a Config(...) call returns is loaded, and get on it
\* does not raise and gives the default for a setting the file lacks.
CFG_ReturnedInstanceIsLoaded ==
    conf.pc = "returned" =>
        /\ conf.instance.loaded
        /\ conf.got.pc # "raised"
        /\ (conf.got.pc = "returned" /\ cfg[conf.got.key] = None) =>
              conf.got.value = ConfigDefault(conf.got.key)

====
